---- MODULE Spec2Model ----
(***************************************************************************)
(* Model of the skin-type web service (src/a.py): a Flask application with *)
(* three routes, a lazily downloaded and lazily loaded Keras model kept in *)
(* the module global _model, and an optional Firestore write per request.  *)
(* Requests are served by worker threads that share the globals and the    *)
(* artifact file; every access to shared state is one step.  Spec lets the *)
(* threads interleave (threaded serving); SeqSpec takes a request only     *)
(* when no other is in flight (one synchronous worker).                    *)
(***************************************************************************)
EXTENDS Integers, Sequences, FiniteSets

\* ---------------------------------------------------------------- bounds
NumThreads == 2          \* worker threads serving requests concurrently
MaxRequests == 3         \* requests received over the life of the process
NumChunks == 2           \* chunks the remote artifact is streamed in
MaxScore == 1            \* classifier scores range over 0..MaxScore

\* ------------------------------------------------------ program constants
SizeThreshold == 1024    \* os.path.getsize(path) > 1024
ChunkSize == 8192        \* r.iter_content(8192)
labels == <<"Dry", "Normal", "Oily">>

Threads == 1..NumThreads
Chunks == 1..NumChunks

\* Python's None, and a present value, as sequences of length 0 and 1.
None == <<>>
Some(x) == <<x>>

\* request.args.get("uid"): absent, empty or a user's id.
Uids == {None, Some(""), Some("u1")}
\* request.files: no image field, or the bytes read from the uploaded file.
Images == {"absent", "empty", "garbage", "picture"}
\* model.predict(img): one score per class.
Outputs == [1..Len(labels) -> 0..MaxScore]

\* What the pipeline can raise; every one is a subclass of Exception.
Exceptions == {"cannot identify image file", "download failed", "cannot load model",
               "inference failed", "write failed"}

NoReq == [method |-> "", path |-> "", image |-> "absent", uid |-> None]
NoResp == [kind |-> "none", status |-> 0, body |-> "", link |-> ""]
NoFile == [exists |-> FALSE, size |-> 0, valid |-> {}]
WholeFile == [exists |-> TRUE, size |-> NumChunks * ChunkSize, valid |-> Chunks]

VARIABLES
    db,               \* Firestore client configured at import (TRUE) or None
    _model,           \* the global model handle: None or Some(handle)
    file,             \* skin_type_classifier.h5 on local storage
    skin_records,     \* documents added to users/<uid>/skin_records, in order
    pc,               \* where each thread is in its request
    req,              \* the request a thread is serving
    off,              \* chunks a thread's download has written so far
    preds,            \* the classifier output of a thread's request
    predicted_label,  \* labels[argmax(preds)]
    written,          \* the document a thread's request added, or None
    log,              \* the calls a thread's request has made, in order
    exc,              \* the exception a thread's request raised, or None
    resp,             \* the response of a thread's request
    started,          \* requests received so far
    downloads,        \* downloads that ran to their last chunk
    loads             \* load_model calls that returned a model

vars == <<db, _model, file, skin_records, pc, req, off, preds, predicted_label,
          written, log, exc, resp, started, downloads, loads>>

shared == <<db, _model, file, skin_records, downloads, loads>>
locals == <<off, preds, predicted_label, written>>

\* -------------------------------------------------------- pure functions
\* bool(x) of an optional string: None and "" are falsy.
Truthy(u) == u # None /\ u[1] # ""

\* user_id or ''
OrEmpty(u) == IF Truthy(u) THEN u[1] ELSE ""

\* request.args.get("uid", "")
GetOr(u, default) == IF u = None THEN default ELSE u[1]

Argmin(p) ==
    CHOOSE i \in 0..(Len(p) - 1) :
        /\ \A j \in 1..Len(p) : p[i + 1] <= p[j]
        /\ \A j \in 1..i : p[j] > p[i + 1]

\* int(np.argmax(preds)): the first index holding the maximum (0-based).
Argmax(p) ==
    CHOOSE i \in 0..(Len(p) - 1) :
        /\ \A j \in 1..Len(p) : p[i + 1] >= p[j]
        /\ \A j \in 1..i : p[j] < p[i + 1]

\* labels[int(np.argmax(preds))]
LabelOf(p) == labels[Argmax(p) + 1]

\* Image.open(io.BytesIO(image_bytes)): only real picture bytes decode.
Decodes(image) == image = "picture"

\* os.path.exists(path) and os.path.getsize(path) > 1024
FilePresent(f) == f.exists /\ f.size > SizeThreshold

\* load_model(MODEL_PATH) returns a model only for the whole artifact.
Loadable(f) == f.exists /\ f.valid = Chunks /\ f.size = NumChunks * ChunkSize

ShouldWrite_db_only(d, u) == d

\* if db and user_id
ShouldWrite(d, u) == d /\ Truthy(u)

Document_default(label) == [skin_type |-> labels[1], timestamp |-> "SERVER_TIMESTAMP"]

\* {"skin_type": predicted_label, "timestamp": firestore.SERVER_TIMESTAMP}
Document(label) == [skin_type |-> label, timestamp |-> "SERVER_TIMESTAMP"]

\* db = None unless SA_JSON is set and the client initialises.
DbAtStartup(sa_json, init_ok) == sa_json /\ init_ok

RouteMethods_any(path) == {"GET", "POST"}

\* The routes' methods, as registered by @app.route.
RouteMethods(path) == {IF path = "/predict" THEN "POST" ELSE "GET"}

Caught_decode_only(e) == e = "cannot identify image file"

\* except Exception as e
Caught(e) == e \in Exceptions

\* ---------------------------------------------------------------- pages
FormPage(uid) ==
    [kind |-> "form", status |-> 200, body |-> uid, link |-> "/predict?uid=" \o uid]
HealthPage == [kind |-> "health", status |-> 200, body |-> "ok", link |-> ""]
NotAllowedPage ==
    [kind |-> "not_allowed", status |-> 405, body |-> "Method Not Allowed", link |-> ""]
NoImagePage_ok ==
    [kind |-> "no_image", status |-> 200, body |-> "No image uploaded", link |-> ""]
\* return "No image uploaded", 400
NoImagePage ==
    [kind |-> "no_image", status |-> 400, body |-> "No image uploaded", link |-> ""]
ResultPage(label, uid) ==
    [kind |-> "result", status |-> 200, body |-> label, link |-> "/?uid=" \o OrEmpty(uid)]
ErrorPage(e) == [kind |-> "error", status |-> 200, body |-> e, link |-> "/"]
\* What the framework answers when a handler lets an exception out.
ServerFault ==
    [kind |-> "fault", status |-> 500, body |-> "Internal Server Error", link |-> ""]

\* ----------------------------------------------------------------- Init
Init ==
    /\ \E sa_json \in BOOLEAN, init_ok \in BOOLEAN : db = DbAtStartup(sa_json, init_ok)
    /\ _model = None
    /\ file \in {NoFile, WholeFile}
    /\ skin_records = <<>>
    /\ pc = [t \in Threads |-> "idle"]
    /\ req = [t \in Threads |-> NoReq]
    /\ off = [t \in Threads |-> 0]
    /\ preds = [t \in Threads |-> None]
    /\ predicted_label = [t \in Threads |-> None]
    /\ written = [t \in Threads |-> None]
    /\ log = [t \in Threads |-> <<>>]
    /\ exc = [t \in Threads |-> None]
    /\ resp = [t \in Threads |-> NoResp]
    /\ started = 0
    /\ downloads = 0
    /\ loads = 0

\* -------------------------------------------------------------- helpers
\* A thread takes the next request off the wire.
Receive(t, method, path, image, uid) ==
    /\ pc[t] = "idle"
    /\ started < MaxRequests
    /\ started' = started + 1
    /\ req' = [req EXCEPT ![t] =
                 [method |-> method, path |-> path, image |-> image, uid |-> uid]]

\* The handler returns: the response is produced.
Respond(t, page) ==
    /\ resp' = [resp EXCEPT ![t] = page]
    /\ pc' = [pc EXCEPT ![t] = "done"]
    /\ UNCHANGED exc

\* An exception leaves the try block of predict(): the except clause answers
\* with the error page, and what it does not catch becomes the framework's 500.
Raise(t, e) ==
    /\ exc' = [exc EXCEPT ![t] = Some(e)]
    /\ resp' = [resp EXCEPT ![t] = IF Caught(e) THEN ErrorPage(e) ELSE ServerFault]
    /\ pc' = [pc EXCEPT ![t] = "done"]

Goto(t, label) ==
    /\ pc' = [pc EXCEPT ![t] = label]
    /\ UNCHANGED <<resp, exc>>

Call(t, name) == log' = [log EXCEPT ![t] = Append(@, name)]

\* ---------------------------------------------------------------- routes
\* GET /
index(t) ==
    \E method \in RouteMethods("/"), uid \in Uids :
        /\ Receive(t, method, "/", "absent", uid)
        /\ Respond(t, FormPage(GetOr(uid, "")))
        /\ UNCHANGED <<shared, locals, log>>

\* GET /health
health(t) ==
    \E method \in RouteMethods("/health") :
        /\ Receive(t, method, "/health", "absent", None)
        /\ Respond(t, HealthPage)
        /\ UNCHANGED <<shared, locals, log>>

\* A method the route is not registered for: the framework answers 405.
method_not_allowed(t) ==
    \E method \in {"GET", "POST"}, path \in {"/", "/health", "/predict"}, uid \in Uids :
        /\ method \notin RouteMethods(path)
        /\ Receive(t, method, path, "absent", uid)
        /\ Respond(t, NotAllowedPage)
        /\ UNCHANGED <<shared, locals, log>>

\* /predict up to preprocess_image; only a POST carries files.
predict(t) ==
    \E method \in RouteMethods("/predict"), uid \in Uids :
        \E image \in IF method = "POST" THEN Images ELSE {"absent"} :
            /\ Receive(t, method, "/predict", image, uid)
            /\ IF image = "absent"
                 THEN /\ Respond(t, NoImagePage)
                      /\ UNCHANGED log
                 ELSE /\ Call(t, "preprocess_image")
                      /\ IF Decodes(image)
                           THEN Goto(t, "get_model")
                           ELSE Raise(t, "cannot identify image file")
            /\ UNCHANGED <<shared, locals>>

\* get_model: if _model is not None: return _model
get_model(t) ==
    /\ pc[t] = "get_model"
    /\ Call(t, "get_model")
    /\ Goto(t, IF _model # None THEN "infer" ELSE "ensure_model_file")
    /\ UNCHANGED <<shared, locals, req, started>>

\* ensure_model_file: the existence and size check.
ensure_model_file(t) ==
    /\ pc[t] = "ensure_model_file"
    /\ Call(t, "ensure_model_file")
    /\ Goto(t, IF FilePresent(file) THEN "load_model" ELSE "http_get")
    /\ UNCHANGED <<shared, locals, req, started>>

\* requests.get(url, stream=True, timeout=300); r.raise_for_status()
http_get(t) ==
    /\ pc[t] = "http_get"
    /\ Call(t, "requests.get")
    /\ \/ Goto(t, "open")
       \/ Raise(t, "download failed")
    /\ UNCHANGED <<shared, locals, req, started>>

\* open(path, "wb"): creates or truncates the file.
open_file(t) ==
    /\ pc[t] = "open"
    /\ file' = [exists |-> TRUE, size |-> 0, valid |-> {}]
    /\ off' = [off EXCEPT ![t] = 0]
    /\ Goto(t, "write")
    /\ UNCHANGED <<db, _model, skin_records, downloads, loads, preds,
                   predicted_label, written, log, req, started>>

\* for chunk in r.iter_content(8192): f.write(chunk), at this writer's offset.
write_chunk(t) ==
    /\ pc[t] = "write"
    /\ \/ /\ file' = [file EXCEPT
                        !.valid = @ \cup {off[t] + 1},
                        !.size = IF @ > (off[t] + 1) * ChunkSize
                                   THEN @ ELSE (off[t] + 1) * ChunkSize]
          /\ off' = [off EXCEPT ![t] = @ + 1]
          /\ IF off[t] + 1 = NumChunks
               THEN /\ downloads' = downloads + 1
                    /\ Goto(t, "load_model")
               ELSE /\ UNCHANGED downloads
                    /\ Goto(t, "write")
       \/ /\ Raise(t, "download failed")
          /\ UNCHANGED <<file, off, downloads>>
    /\ UNCHANGED <<db, _model, skin_records, loads, preds, predicted_label,
                   written, log, req, started>>

\* _model = load_model(MODEL_PATH); return _model
load_model(t) ==
    /\ pc[t] = "load_model"
    /\ Call(t, "load_model")
    /\ IF Loadable(file)
         THEN /\ loads' = loads + 1
              /\ _model' = Some(loads + 1)
              /\ Goto(t, "infer")
         ELSE /\ Raise(t, "cannot load model")
              /\ UNCHANGED <<loads, _model>>
    /\ UNCHANGED <<db, file, skin_records, downloads, locals, req, started>>

\* preds = model.predict(img); predicted_label = labels[int(np.argmax(preds))]
infer(t) ==
    /\ pc[t] = "infer"
    /\ Call(t, "model.predict")
    /\ \/ \E p \in Outputs :
            /\ preds' = [preds EXCEPT ![t] = Some(p)]
            /\ predicted_label' = [predicted_label EXCEPT ![t] = Some(LabelOf(p))]
            /\ Goto(t, "persist")
       \/ /\ Raise(t, "inference failed")
          /\ UNCHANGED <<preds, predicted_label>>
    /\ UNCHANGED <<shared, off, written, req, started>>

\* if db and user_id: db.collection(...).add({...})
persist(t) ==
    /\ pc[t] = "persist"
    /\ IF ShouldWrite(db, req[t].uid)
         THEN /\ Call(t, "add")
              /\ \/ /\ skin_records' =
                         Append(skin_records, Document(predicted_label[t][1]))
                    /\ written' = [written EXCEPT ![t] =
                                     Some(Document(predicted_label[t][1]))]
                    /\ Goto(t, "render")
                 \/ /\ Raise(t, "write failed")
                    /\ UNCHANGED <<skin_records, written>>
         ELSE /\ Goto(t, "render")
              /\ UNCHANGED <<skin_records, written, log>>
    /\ UNCHANGED <<db, _model, file, downloads, loads, off, preds,
                   predicted_label, req, started>>

\* return the result page
render(t) ==
    /\ pc[t] = "render"
    /\ Respond(t, ResultPage(predicted_label[t][1], req[t].uid))
    /\ UNCHANGED <<shared, locals, log, req, started>>

\* The response is sent; the thread is free for the next request.
finish(t) ==
    /\ pc[t] = "done"
    /\ pc' = [pc EXCEPT ![t] = "idle"]
    /\ req' = [req EXCEPT ![t] = NoReq]
    /\ resp' = [resp EXCEPT ![t] = NoResp]
    /\ off' = [off EXCEPT ![t] = 0]
    /\ preds' = [preds EXCEPT ![t] = None]
    /\ predicted_label' = [predicted_label EXCEPT ![t] = None]
    /\ written' = [written EXCEPT ![t] = None]
    /\ log' = [log EXCEPT ![t] = <<>>]
    /\ exc' = [exc EXCEPT ![t] = None]
    /\ UNCHANGED <<shared, started>>

\* Threaded serving (app.run, or Gunicorn with threads): requests interleave.
Next ==
    \E t \in Threads :
        \/ index(t)
        \/ health(t)
        \/ method_not_allowed(t)
        \/ predict(t)
        \/ get_model(t)
        \/ ensure_model_file(t)
        \/ http_get(t)
        \/ open_file(t)
        \/ write_chunk(t)
        \/ load_model(t)
        \/ infer(t)
        \/ persist(t)
        \/ render(t)
        \/ finish(t)

Spec == Init /\ [][Next]_vars

\* One synchronous worker: a request is taken only when no other is in flight.
Alone(t) == \A u \in Threads \ {t} : pc[u] = "idle"

SeqNext ==
    \E t \in Threads :
        \/ Alone(t) /\ index(t)
        \/ Alone(t) /\ health(t)
        \/ Alone(t) /\ method_not_allowed(t)
        \/ Alone(t) /\ predict(t)
        \/ Alone(t) /\ get_model(t)
        \/ Alone(t) /\ ensure_model_file(t)
        \/ Alone(t) /\ http_get(t)
        \/ Alone(t) /\ open_file(t)
        \/ Alone(t) /\ write_chunk(t)
        \/ Alone(t) /\ load_model(t)
        \/ Alone(t) /\ infer(t)
        \/ Alone(t) /\ persist(t)
        \/ Alone(t) /\ render(t)
        \/ Alone(t) /\ finish(t)

SeqSpec == Init /\ [][SeqNext]_vars

\* ------------------------------------------------------------ properties
Done(t) == pc[t] = "done"
IsPredictPost(t) == req[t].method = "POST" /\ req[t].path = "/predict"
IsPredictGet(t) == req[t].method = "GET" /\ req[t].path = "/predict"
Calls(t, name) == {i \in 1..Len(log[t]) : log[t][i] = name}
Called(t, name) == Calls(t, name) # {}
Redirects == {301, 302, 303, 307, 308}
\* The acquisition, load, inference and write calls of the pipeline.
PipelineCalls ==
    {"get_model", "ensure_model_file", "requests.get", "load_model", "model.predict", "add"}
NoPipeline(t) ==
    /\ \A i \in 1..Len(log[t]) : log[t][i] \notin PipelineCalls
    /\ predicted_label[t] = None
    /\ written[t] = None

\* C1: concurrent first requests, arriving while the handle is absent and the
\* artifact is not on disk, make exactly one download and exactly one load in
\* total: no second request is fetching while another one is, there is never
\* a second completed download, and never a second load once the process has
\* downloaded the artifact.
C1_OneDownloadOneLoad ==
    /\ Cardinality({t \in Threads : pc[t] \in {"open", "write"}}) <= 1
    /\ downloads <= 1
    /\ downloads >= 1 => loads <= 1

\* C2: with the backend configured, a user id supplied and the classification
\* done, the response is the result page showing the predicted label even if
\* the record write raised.
C2_WriteFailureStillRenders ==
    \A t \in Threads :
        (Done(t) /\ IsPredictPost(t) /\ db /\ Truthy(req[t].uid)
            /\ predicted_label[t] # None)
        => resp[t] = ResultPage(predicted_label[t][1], req[t].uid)

\* C3: a record write is attempted only if db is configured and a non-empty
\* user id was supplied; if either is missing no write occurs and a request
\* whose classification succeeded still gets the result page.
C3_WriteOnlyWithDbAndUid ==
    /\ \A t \in Threads :
        /\ Called(t, "add") => (db /\ req[t].uid # None /\ req[t].uid[1] # "")
        /\ written[t] # None => Called(t, "add")
        /\ (Done(t) /\ predicted_label[t] # None
                /\ (~db \/ req[t].uid = None \/ req[t].uid = Some("")))
           => /\ resp[t].kind = "result"
              /\ resp[t].body = predicted_label[t][1]
              /\ ~Called(t, "add")
              /\ written[t] = None
    /\ ~db => skin_records = <<>>

C3_Witness ==
    \E t \in Threads :
        /\ Done(t) /\ IsPredictPost(t)
        /\ db /\ req[t].uid = Some("")
        /\ resp[t].kind = "result"
        /\ ~Called(t, "add")

\* C4: in a POST /predict that carries the image field, a failure raised in
\* any pipeline step ends in the generic error page (status 200, the message,
\* a link back to "/"); the response is never the framework's server fault.
C4_FailuresEndInErrorPage ==
    \A t \in Threads :
        (Done(t) /\ IsPredictPost(t) /\ req[t].image # "absent")
        => /\ resp[t].kind # "fault" /\ resp[t].status # 500
           /\ exc[t] # None
              => resp[t] = [kind |-> "error", status |-> 200,
                            body |-> exc[t][1], link |-> "/"]
           /\ exc[t] = None => resp[t].kind = "result"
           /\ req[t].image \in {"empty", "garbage"}
              => exc[t] = Some("cannot identify image file")

C4_Witness ==
    \E t \in Threads :
        /\ Done(t) /\ IsPredictPost(t)
        /\ exc[t] = Some("write failed")
        /\ resp[t].kind = "error" /\ resp[t].link = "/"

C6_LoadOnceAndMemoized ==
    [][(_model # None => _model' = _model) /\ loads' <= 1]_vars

C8_LabelIsArgmax ==
    \A t \in Threads :
        /\ predicted_label[t] # None
           => /\ preds[t] # None
              /\ \E i \in 1..3 :
                    /\ predicted_label[t][1] = labels[i]
                    /\ \A j \in 1..3 : preds[t][1][i] >= preds[t][1][j]
                    /\ \A j \in 1..(i - 1) : preds[t][1][j] < preds[t][1][i]
              /\ predicted_label[t][1] \in {"Dry", "Normal", "Oily"}
        /\ (Done(t) /\ resp[t].kind = "result")
           => /\ predicted_label[t] # None
              /\ resp[t].body = predicted_label[t][1]
              /\ resp[t].status = 200
        /\ (Done(t) /\ IsPredictPost(t) /\ req[t].image # "absent"
                /\ req[t].uid = None /\ exc[t] = None)
           => /\ resp[t].kind = "result"
              /\ resp[t].link = "/?uid="
              /\ ~Called(t, "add")

C8_Witness ==
    \E t \in Threads :
        /\ Done(t) /\ IsPredictPost(t)
        /\ req[t].uid = None
        /\ preds[t] = Some(<<0, 1, 1>>)
        /\ resp[t].kind = "result" /\ resp[t].body = "Normal"

\* C9: the artifact is fetched iff the file is missing or not larger than 1024
\* bytes, and that check sends a request to the download whenever the file on
\* disk is not the whole artifact (a download that failed part-way is fetched
\* again, not loaded).
C9_PartialFileRefetched ==
    [][\A t \in Threads :
          (pc[t] = "ensure_model_file" /\ pc'[t] # pc[t])
          => /\ pc'[t] = "http_get" <=> ~(file.exists /\ file.size > 1024)
             /\ ~Loadable(file) => pc'[t] = "http_get"]_vars

\* C10: a request makes at most one record write; the write comes after the
\* request's own preprocess_image, get_model and model.predict calls and
\* before its response; the skin_type written is the label on the result page;
\* a request that failed in decode, download, load or inference wrote nothing.
C10_WriteOrdering ==
    \A t \in Threads :
        /\ Cardinality(Calls(t, "add")) <= 1
        /\ \A a \in Calls(t, "add") :
              /\ \E i \in Calls(t, "preprocess_image"), j \in Calls(t, "get_model"),
                    k \in Calls(t, "model.predict") : i < j /\ j < k /\ k < a
              /\ a = Len(log[t])
              /\ predicted_label[t] # None
        /\ (pc[t] # "done" /\ Called(t, "add")) => resp[t] = NoResp
        /\ (resp[t].kind = "result" /\ db /\ Truthy(req[t].uid))
           => /\ Called(t, "add")
              /\ written[t] # None
        /\ (resp[t].kind = "result" /\ written[t] # None)
           => written[t][1].skin_type = resp[t].body
        /\ exc[t] \in {Some("cannot identify image file"), Some("download failed"),
                       Some("cannot load model"), Some("inference failed")}
           => /\ ~Called(t, "add")
              /\ written[t] = None

C10_Witness ==
    \E t \in Threads :
        /\ Done(t) /\ IsPredictPost(t)
        /\ resp[t].kind = "result" /\ resp[t].body = "Oily"
        /\ written[t] # None
        /\ skin_records # <<>>
====
